---- MODULE Spec2Model ----
(***************************************************************************)
(* In-memory table of the storage layer (src/storage/memory/table.rs):     *)
(* InMemoryTableInner behind Arc<RwLock<..>>, the Table trait surface of   *)
(* InMemoryTable, and the sessions that callers run against it.            *)
(***************************************************************************)
EXTENDS Integers, Sequences, FiniteSets, TLC

\* ---------------------------------------------------------------- bounds
MaxChunks == 2        \* appends accepted by the model (Vec<DataChunkRef> length)
MaxRowId  == 1        \* row identifiers passed to delete: 0..MaxRowId
MaxIds    == 2        \* length of the id slice passed to column_descs
MaxLitLen == 3        \* characters of a numeric literal given to the binder

\* ---------------------------------------------------------------- values
Tasks       == {"t1", "t2"}
ChunkData   == {"A", "B"}
RowIds      == 0..MaxRowId
ColumnIds   == {1, 2}
ColumnDescs == {"int", "str"}
None        == "None"

\* DataChunk::cardinality: the number of rows of a chunk.
cardinality(chunk) == IF chunk = "A" THEN 2 ELSE 1

\* The one-id slices column_descs is called with next to running sessions.
OneId == {<<id>> : id \in ColumnIds}

\* Sequences over S of length at most n.
SeqUpTo(S, n) == UNION {[1..k -> S] : k \in 0..n}

\* std Result values; Pending while the call runs, Panicked when it unwound.
Ok(v)    == [tag |-> "Ok", val |-> v]
Err(e)   == [tag |-> "Err", val |-> e]
Unit     == "()"
Pending  == [tag |-> "Pending", val |-> None]
Panicked == [tag |-> "Panicked", val |-> None]

\* StorageError::InvalidColumn(id)
InvalidColumn(id) == [InvalidColumn |-> id]
\* the storage-level failure a session reports for a poisoned lock
LockPoisoned == [LockPoisoned |-> TRUE]

\* ColumnCatalog: col.id(), col.desc()
ColumnCatalog(id, desc) == [id |-> id, desc |-> desc]

\* Column catalogs handed to InMemoryTable::new: ids unique within a table.
Catalogs ==
    {cat \in SeqUpTo({ColumnCatalog(i, d) : i \in ColumnIds, d \in ColumnDescs},
                     Cardinality(ColumnIds)) :
        \A i, j \in 1..Len(cat) : i # j => cat[i].id # cat[j].id}

\* ------------------------------------------------- InMemoryTableInner
\* columns.iter().map(|col| (col.id(), col.desc().clone())).collect():
\* HashMap::from_iter inserts in iteration order, a later key replaces.
RECURSIVE collect(_)
collect(cols) ==
    IF cols = <<>> THEN <<>>
    ELSE LET n    == Len(cols)
             m    == collect(SubSeq(cols, 1, n - 1))
             last == cols[n]
         IN  [k \in (DOMAIN m) \cup {last.id} |->
                 IF k = last.id THEN last.desc ELSE m[k]]

\* InMemoryTableInner::new
new(cols) == [chunks |-> <<>>, columns |-> collect(cols), deleted_rows |-> {}]

\* Variant of append: the chunk is inserted at the front of the Vec.
append_front(self_chunks, chunk) == <<chunk>> \o self_chunks

\* Variant of append: the chunk is stored over the last slot of the Vec.
append_overwrite(self_chunks, chunk) ==
    IF self_chunks = <<>> THEN <<chunk>>
    ELSE [self_chunks EXCEPT ![Len(self_chunks)] = chunk]

\* InMemoryTableInner::append: self.chunks.push(Arc::new(chunk)); Ok(())
append(self_chunks, chunk) == Append(self_chunks, chunk)

\* Variant of delete: a row already in the set is taken out of it.
delete_toggle(self_deleted_rows, row_id) ==
    IF row_id \in self_deleted_rows THEN self_deleted_rows \ {row_id}
    ELSE self_deleted_rows \cup {row_id}

\* InMemoryTableInner::delete: self.deleted_rows.insert(row_id); Ok(())
delete(self_deleted_rows, row_id) == self_deleted_rows \cup {row_id}

\* A value that borrows the table's own Vec, or HashSet, in place of a clone.
BorrowedChunks == <<"&self.chunks">>
BorrowedRows   == {-1}

\* Variant of get_all_chunks: the table's own Vec is handed out, not a clone.
get_all_chunks_borrowed(self_chunks) == BorrowedChunks

\* Variant of get_all_chunks: the clone starts at the second chunk.
get_all_chunks_skip_first(self_chunks) ==
    IF self_chunks = <<>> THEN <<>> ELSE Tail(self_chunks)

\* InMemoryTableInner::get_all_chunks: self.chunks.clone()
get_all_chunks(self_chunks) == self_chunks

\* InMemoryTableInner::get_all_deleted_rows: self.deleted_rows.clone()
get_all_deleted_rows(self_deleted_rows) == self_deleted_rows

\* Itertools::try_collect over ids.iter().map(..): the first Err ends the
\* iteration and is the result; otherwise Ok of the collected Vec.
RECURSIVE try_collect(_, _, _)
try_collect(self_columns, ids, acc) ==
    IF ids = <<>> THEN Ok(acc)
    ELSE IF Head(ids) \in DOMAIN self_columns
         THEN try_collect(self_columns, Tail(ids),
                          Append(acc, self_columns[Head(ids)]))
         ELSE Err(InvalidColumn(Head(ids)))

\* Variant of column_descs: filter_map in place of map and try_collect, the
\* ids that are not in the map are skipped.
RECURSIVE filter_collect(_, _)
filter_collect(self_columns, ids) ==
    IF ids = <<>> THEN <<>>
    ELSE IF Head(ids) \in DOMAIN self_columns
         THEN <<self_columns[Head(ids)]>> \o filter_collect(self_columns, Tail(ids))
         ELSE filter_collect(self_columns, Tail(ids))

column_descs_skip_unknown(self_columns, ids) == Ok(filter_collect(self_columns, ids))

\* Variant of column_descs: the map is iterated, in key order, and the
\* entries whose id is requested are kept.
RECURSIVE in_key_order(_, _)
in_key_order(self_columns, keys) ==
    IF keys = {} THEN <<>>
    ELSE LET k == CHOOSE x \in keys : \A y \in keys : x <= y
         IN  <<self_columns[k]>> \o in_key_order(self_columns, keys \ {k})

column_descs_map_order(self_columns, ids) ==
    LET wanted == {ids[i] : i \in 1..Len(ids)}
    IN  IF wanted \subseteq DOMAIN self_columns
        THEN Ok(in_key_order(self_columns, wanted))
        ELSE try_collect(self_columns, ids, <<>>)

\* InMemoryTableInner::column_descs
column_descs(self_columns, ids) == try_collect(self_columns, ids, <<>>)

\* ----------------------------------------------------------------- state
VARIABLES
    catalog,       \* the &[ColumnCatalog] given to InMemoryTable::new
    chunks,        \* InMemoryTableInner.chunks
    deleted_rows,  \* InMemoryTableInner.deleted_rows
    columns,       \* InMemoryTableInner.columns
    writer,        \* RwLock: the task holding the write guard, or None
    readers,       \* RwLock: the tasks holding a read guard
    poisoned,      \* RwLock: poison flag
    session,       \* per task: entry point of its live session, or None
    pc,            \* per task: "idle" | "wait" | "locked" | "panicked"
    call,          \* per task: the call in progress, or the last one made
    ret,           \* per task: what the last call returned, Pending while running
    overlap,       \* per task: its append was invoked while another ran
    appendLog,     \* history: chunks of the appends in the order they took effect
    handle,        \* per task: the InMemoryTable value it holds
    origin,        \* per task: "new" for the handle new returned, "clone" for a clone
    txn,           \* per task: the InMemoryTransaction of its live session
    expr,          \* Binder: the Expr given to bind_expr
    bound          \* Binder: what bind_expr returned

vars == <<catalog, chunks, deleted_rows, columns, writer, readers, poisoned,
          session, pc, call, ret, overlap, appendLog, handle, origin, txn,
          expr, bound>>

\* What the calls on the table leave alone: the handles and the binder.
aside == <<handle, origin, expr, bound>>

table == <<catalog, chunks, deleted_rows, columns>>
lock  == <<writer, readers, poisoned>>

NoCall == [op |-> None, arg |-> None]
Mutating  == {"append", "delete"}
Reading   == {"get_all_chunks", "get_all_deleted_rows", "column_descs"}

\* What the holder of a value returned by get_all_chunks, or by
\* get_all_deleted_rows, reads in it: a clone is its own content.
seen_chunks(v) == IF v = BorrowedChunks THEN chunks ELSE v
seen_rows(v)   == IF v = BorrowedRows THEN deleted_rows ELSE v

\* InMemoryTableInner as a value: the self of its methods.
Self == [chunks |-> chunks, deleted_rows |-> deleted_rows, columns |-> columns]

\* Variant of append: the descriptors are rewritten from the chunk pushed.
append_mut_retyping(self, chunk) ==
    [self EXCEPT !.chunks = append(self.chunks, chunk),
                 !.columns = [id \in DOMAIN self.columns |-> "str"]]

\* fn append(&mut self, chunk): of self, only chunks is written.
append_mut(self, chunk) == [self EXCEPT !.chunks = append(self.chunks, chunk)]

\* Variant of delete: the chunk that holds the row is taken out of the Vec
\* as well.
RECURSIVE without_chunk_of(_, _)
without_chunk_of(cs, row_id) ==
    IF cs = <<>> THEN <<>>
    ELSE IF row_id < cardinality(Head(cs)) THEN Tail(cs)
    ELSE <<Head(cs)>> \o without_chunk_of(Tail(cs), row_id - cardinality(Head(cs)))

delete_mut_compacting(self, row_id) ==
    [self EXCEPT !.deleted_rows = delete(self.deleted_rows, row_id),
                 !.chunks = without_chunk_of(self.chunks, row_id)]

\* fn delete(&mut self, row_id): of self, only deleted_rows is written.
delete_mut(self, row_id) ==
    [self EXCEPT !.deleted_rows = delete(self.deleted_rows, row_id)]

\* The allocation Arc::new(RwLock::new(..)) of InMemoryTable::new.
TheArc == "arc0"
TheTableRefId == [table_id |-> "t"]

\* InMemoryTable::new: the handle.
new_table(table_ref_id) == [table_ref_id |-> table_ref_id, inner |-> TheArc]

\* Variant of clone: the clone owns a copy of the inner table in an
\* allocation of its own.
clone_deep(h) == [table_ref_id |-> h.table_ref_id, inner |-> "arc1"]

\* #[derive(Clone)] on InMemoryTable: table_ref_id is copied and Arc::clone
\* gives a pointer to the same allocation.
clone(h) == [table_ref_id |-> h.table_ref_id, inner |-> h.inner]

\* Table::table_id
table_id(h) == h.table_ref_id

\* InMemoryTransaction::start(table): built from the table alone.
InMemoryTransaction_start(h) == [table |-> h.inner]
NoTxn == [table |-> None]

\* The Binder at rest.
NoExpr == [kind |-> None, val |-> None]

\* The catalog of the table of the concurrency specification.
DefaultCatalog == <<ColumnCatalog(1, "int")>>

InitTasks ==
    /\ writer = None
    /\ readers = {}
    /\ poisoned = FALSE
    /\ session = [t \in Tasks |-> None]
    /\ pc = [t \in Tasks |-> "idle"]
    /\ call = [t \in Tasks |-> NoCall]
    /\ ret = [t \in Tasks |-> Pending]
    /\ overlap = [t \in Tasks |-> FALSE]
    /\ handle = [t \in Tasks |-> new_table(TheTableRefId)]
    /\ origin = [t \in Tasks |-> "new"]
    /\ txn = [t \in Tasks |-> NoTxn]
    /\ expr = NoExpr
    /\ bound = Pending

\* InMemoryTable::new(table_ref_id, columns)
Init ==
    /\ catalog = DefaultCatalog
    /\ chunks = new(catalog).chunks
    /\ deleted_rows = new(catalog).deleted_rows
    /\ columns = new(catalog).columns
    /\ appendLog = <<>>
    /\ InitTasks

\* ------------------------------------------------------------- RwLock
\* Variant of CanRead: a read guard is given only when no guard is held.
CanRead_exclusive(w, rs) == w = None /\ rs = {}

\* RwLock::read blocks while a write guard is held.
CanRead(w, rs) == w = None

\* Variant of CanWrite: the read guards are not looked at.
CanWrite_ignoring_readers(w, rs) == w = None

\* RwLock::write blocks while any guard is held.
CanWrite(w, rs) == w = None /\ rs = {}

\* The appends invoked and not yet returned.
PendingAppends == {u \in Tasks : pc[u] \in {"wait", "locked"} /\ call[u].op = "append"}

\* ------------------------------------------------- Table: read/write/update
\* InMemoryTransaction::start(self): the session is built from the table
\* alone, whichever entry point is called; session[t] keeps the entry point
\* the caller used and txn[t] the transaction, which is all the calls read.
start(t, entry) ==
    /\ pc[t] = "idle"
    /\ session[t] = None
    /\ session' = [session EXCEPT ![t] = entry]
    /\ txn' = [txn EXCEPT ![t] = InMemoryTransaction_start(handle[t])]
    /\ UNCHANGED <<table, lock, pc, call, ret, overlap, appendLog, aside>>

\* Variant of read: the session remembers the entry point it came from.
read_tagged(t) ==
    /\ pc[t] = "idle"
    /\ session[t] = None
    /\ session' = [session EXCEPT ![t] = "read"]
    /\ txn' = [txn EXCEPT ![t] = [table |-> handle[t].inner, mode |-> "read"]]
    /\ UNCHANGED <<table, lock, pc, call, ret, overlap, appendLog, aside>>

\* Variant of write: the session takes the write guard for its whole life.
write_locking(t) ==
    /\ pc[t] = "idle"
    /\ session[t] = None
    /\ CanWrite(writer, readers)
    /\ writer' = t
    /\ session' = [session EXCEPT ![t] = "write"]
    /\ txn' = [txn EXCEPT ![t] = InMemoryTransaction_start(handle[t])]
    /\ UNCHANGED <<table, readers, poisoned, pc, call, ret, overlap, appendLog, aside>>

write(t)  == start(t, "write")
read(t)   == start(t, "read")
update(t) == start(t, "update")

\* Variant of drop: what the table holds is withdrawn with the session.
drop_rollback(t) ==
    /\ pc[t] = "idle"
    /\ session[t] # None
    /\ session' = [session EXCEPT ![t] = None]
    /\ txn' = [txn EXCEPT ![t] = NoTxn]
    /\ chunks' = <<>>
    /\ deleted_rows' = {}
    /\ UNCHANGED <<catalog, columns, lock, pc, call, ret, overlap, appendLog, aside>>

\* The session is dropped.
drop(t) ==
    /\ pc[t] = "idle"
    /\ session[t] # None
    /\ session' = [session EXCEPT ![t] = None]
    /\ txn' = [txn EXCEPT ![t] = NoTxn]
    /\ UNCHANGED <<table, lock, pc, call, ret, overlap, appendLog, aside>>

\* ------------------------------------------------------ a call is made
Invoke(t, op, arg, ov) ==
    /\ pc[t] = "idle"
    /\ pc' = [pc EXCEPT ![t] = "wait"]
    /\ call' = [call EXCEPT ![t] = [op |-> op, arg |-> arg]]
    /\ ret' = [ret EXCEPT ![t] = Pending]
    /\ overlap' = [overlap EXCEPT ![t] = ov]
    /\ UNCHANGED <<table, lock, session, appendLog, txn, aside>>

InvokeAppend(t, chunk) ==
    /\ txn[t] # NoTxn
    /\ Len(chunks) + Cardinality(PendingAppends) < MaxChunks
    /\ Invoke(t, "append", chunk, PendingAppends # {})

InvokeDelete(t, row_id) ==
    /\ txn[t] # NoTxn
    /\ Invoke(t, "delete", row_id, FALSE)

InvokeGetAllChunks(t) ==
    /\ txn[t] # NoTxn
    /\ Invoke(t, "get_all_chunks", None, FALSE)

InvokeGetAllDeletedRows(t) ==
    /\ txn[t] # NoTxn
    /\ Invoke(t, "get_all_deleted_rows", None, FALSE)

\* Table::column_descs is a method of the table handle: no session needed.
InvokeColumnDescs(t, ids) == Invoke(t, "column_descs", ids, FALSE)

\* ------------------------------------------------ the lock is acquired
\* A session's mutating call takes the write guard.
AcquireWrite(t) ==
    /\ pc[t] = "wait"
    /\ call[t].op \in Mutating
    /\ ~poisoned
    /\ CanWrite(writer, readers)
    /\ writer' = t
    /\ pc' = [pc EXCEPT ![t] = "locked"]
    /\ UNCHANGED <<table, readers, poisoned, session, call, ret, overlap, appendLog, txn, aside>>

\* self.inner.read(): an enumerating call and column_descs take a read guard.
AcquireRead(t) ==
    /\ pc[t] = "wait"
    /\ call[t].op \in Reading
    /\ ~poisoned
    /\ CanRead(writer, readers)
    /\ readers' = readers \cup {t}
    /\ pc' = [pc EXCEPT ![t] = "locked"]
    /\ UNCHANGED <<table, writer, poisoned, session, call, ret, overlap, appendLog, txn, aside>>

\* A session's call on a poisoned lock: the failure is returned.
SessionLockError(t) ==
    /\ pc[t] = "wait"
    /\ call[t].op # "column_descs"
    /\ poisoned
    /\ IF call[t].op \in Mutating THEN CanWrite(writer, readers)
                                  ELSE CanRead(writer, readers)
    /\ pc' = [pc EXCEPT ![t] = "idle"]
    /\ ret' = [ret EXCEPT ![t] = Err(LockPoisoned)]
    /\ UNCHANGED <<table, lock, session, call, overlap, appendLog, txn, aside>>

\* Table::column_descs on a poisoned lock: read() returns Err(PoisonError)
\* and unwrap() panics; the guard inside the error is dropped.
ColumnDescsPoisoned(t) ==
    /\ pc[t] = "wait"
    /\ call[t].op = "column_descs"
    /\ poisoned
    /\ CanRead(writer, readers)
    /\ pc' = [pc EXCEPT ![t] = "panicked"]
    /\ ret' = [ret EXCEPT ![t] = Panicked]
    /\ UNCHANGED <<table, lock, session, call, overlap, appendLog, txn, aside>>

\* ------------------------------------- the call runs and drops its guard
Return(t, v) ==
    /\ pc' = [pc EXCEPT ![t] = "idle"]
    /\ ret' = [ret EXCEPT ![t] = v]
    /\ UNCHANGED <<catalog, poisoned, session, call, overlap, txn, aside>>

TxnAppend(t) ==
    /\ pc[t] = "locked"
    /\ call[t].op = "append"
    /\ LET self == append_mut(Self, call[t].arg)
       IN  /\ chunks' = self.chunks
           /\ deleted_rows' = self.deleted_rows
           /\ columns' = self.columns
    /\ appendLog' = Append(appendLog, call[t].arg)
    /\ writer' = None
    /\ Return(t, Ok(Unit))
    /\ UNCHANGED readers

TxnDelete(t) ==
    /\ pc[t] = "locked"
    /\ call[t].op = "delete"
    /\ LET self == delete_mut(Self, call[t].arg)
       IN  /\ chunks' = self.chunks
           /\ deleted_rows' = self.deleted_rows
           /\ columns' = self.columns
    /\ writer' = None
    /\ Return(t, Ok(Unit))
    /\ UNCHANGED <<readers, appendLog>>

TxnGetAllChunks(t) ==
    /\ pc[t] = "locked"
    /\ call[t].op = "get_all_chunks"
    /\ readers' = readers \ {t}
    /\ Return(t, Ok(get_all_chunks(chunks)))
    /\ UNCHANGED <<chunks, deleted_rows, columns, writer, appendLog>>

TxnGetAllDeletedRows(t) ==
    /\ pc[t] = "locked"
    /\ call[t].op = "get_all_deleted_rows"
    /\ readers' = readers \ {t}
    /\ Return(t, Ok(get_all_deleted_rows(deleted_rows)))
    /\ UNCHANGED <<chunks, deleted_rows, columns, writer, appendLog>>

\* Table::column_descs: inner.column_descs(ids), then the guard is dropped.
TableColumnDescs(t) ==
    /\ pc[t] = "locked"
    /\ call[t].op = "column_descs"
    /\ readers' = readers \ {t}
    /\ Return(t, column_descs(columns, call[t].arg))
    /\ UNCHANGED <<chunks, deleted_rows, columns, writer, appendLog>>

\* The holder of the write guard fails before it changes anything: the
\* guard is dropped during unwinding and the lock is poisoned.
HolderPanic(t) ==
    /\ pc[t] = "locked"
    /\ writer = t
    /\ writer' = None
    /\ poisoned' = TRUE
    /\ pc' = [pc EXCEPT ![t] = "panicked"]
    /\ ret' = [ret EXCEPT ![t] = Panicked]
    /\ UNCHANGED <<table, readers, session, call, overlap, appendLog, txn, aside>>

\* ------------------------------------------------------- specification
Next ==
    \E t \in Tasks :
        \/ write(t)
        \/ read(t)
        \/ update(t)
        \/ drop(t)
        \/ \E chunk \in ChunkData : InvokeAppend(t, chunk)
        \/ \E row_id \in RowIds : InvokeDelete(t, row_id)
        \/ InvokeGetAllChunks(t)
        \/ InvokeGetAllDeletedRows(t)
        \/ \E ids \in OneId : InvokeColumnDescs(t, ids)
        \/ AcquireWrite(t)
        \/ AcquireRead(t)
        \/ SessionLockError(t)
        \/ ColumnDescsPoisoned(t)
        \/ TxnAppend(t)
        \/ TxnDelete(t)
        \/ TxnGetAllChunks(t)
        \/ TxnGetAllDeletedRows(t)
        \/ TableColumnDescs(t)
        \/ HolderPanic(t)

Spec == Init /\ [][Next]_vars

\* ------------------------------------- specification: cloned handles
\* Task t replaces the handle it holds by a clone of task u's handle.
CloneHandle(t, u) ==
    /\ pc[t] = "idle"
    /\ txn[t] = NoTxn
    /\ handle' = [handle EXCEPT ![t] = clone(handle[u])]
    /\ origin' = [origin EXCEPT ![t] = "clone"]
    /\ UNCHANGED <<table, lock, session, pc, call, ret, overlap, appendLog,
                   txn, expr, bound>>

\* Sessions started from handles and from clones of handles.
NextAlias ==
    \E t \in Tasks :
        \/ \E u \in Tasks : CloneHandle(t, u)
        \/ write(t)
        \/ read(t)
        \/ \E chunk \in ChunkData : InvokeAppend(t, chunk)
        \/ \E row_id \in RowIds : InvokeDelete(t, row_id)
        \/ InvokeGetAllChunks(t)
        \/ InvokeGetAllDeletedRows(t)
        \/ AcquireWrite(t)
        \/ AcquireRead(t)
        \/ TxnAppend(t)
        \/ TxnDelete(t)
        \/ TxnGetAllChunks(t)
        \/ TxnGetAllDeletedRows(t)

SpecAlias == Init /\ [][NextAlias]_vars

\* ------------------------------------- specification: column_descs alone
\* Tables built from every catalog, holding some chunks and tombstones, on
\* which only column_descs is called, with every id slice up to MaxIds.
InitCols ==
    /\ catalog \in Catalogs
    /\ columns = new(catalog).columns
    /\ chunks \in {<<>>, <<"A", "B">>}
    /\ deleted_rows \in {{}, {1}}
    /\ appendLog = chunks
    /\ InitTasks

NextCols ==
    \E t \in Tasks :
        \/ \E ids \in SeqUpTo(ColumnIds, MaxIds) : InvokeColumnDescs(t, ids)
        \/ AcquireRead(t)
        \/ TableColumnDescs(t)

SpecCols == InitCols /\ [][NextCols]_vars

\* ------------------------------------------------------------ helpers
IsPrefix(s1, s2) == Len(s1) <= Len(s2) /\ SubSeq(s2, 1, Len(s1)) = s1

\* Task t's call op has returned (not unwound) and t made no call since.
Done(t, op) == pc[t] = "idle" /\ call[t].op = op /\ ret[t].tag \in {"Ok", "Err"}

\* This step is the return of task t's call op from under its guard.
Returns(t, op) == pc[t] = "locked" /\ call[t].op = op /\ pc'[t] = "idle"

\* The rows appended so far: positions 0..RowCount-1 of the concatenation.
RECURSIVE RowCount(_)
RowCount(cs) == IF cs = <<>> THEN 0 ELSE cardinality(Head(cs)) + RowCount(Tail(cs))

Absent(ids) == {i \in 1..Len(ids) : ids[i] \notin DOMAIN columns}

\* ----------------------------------------------------------------- C1
\* C1 (append monotonicity): whenever get_all_chunks returns, to any task,
\* what it returns is exactly the sequence of the chunks of the successful
\* appends so far, in the order those appends took effect: none omitted,
\* duplicated or reordered.
C1_AppendMonotonicity ==
    [][\A t \in Tasks :
          Returns(t, "get_all_chunks") => ret'[t] = Ok(appendLog)]_vars

\* Two different chunks were appended and a reader got both back.
C1_Witness ==
    \E t \in Tasks :
        /\ Done(t, "get_all_chunks")
        /\ ret[t].tag = "Ok"
        /\ Len(ret[t].val) = 2
        /\ ret[t].val[1] # ret[t].val[2]
        /\ ret[t].val = appendLog

\* ----------------------------------------------------------------- C2
\* C2 (read/write isolation): a snapshot returned by get_all_chunks has
\* every snapshot a task still holds from an earlier call as a prefix, and
\* every step of the table extends the chunk sequence at its end or leaves
\* it alone, so a snapshot no longer held is a prefix of the later ones too.
C2_ReadWriteIsolation ==
    [][/\ IsPrefix(chunks, chunks')
       /\ \A t \in Tasks :
            Returns(t, "get_all_chunks") =>
                /\ ret'[t].tag = "Ok"
                /\ IsPrefix(chunks, ret'[t].val)
                /\ \A u \in Tasks :
                     (Done(u, "get_all_chunks") /\ ret[u].tag = "Ok")
                        => IsPrefix(ret[u].val, ret'[t].val)]_vars

\* Two readers hold snapshots, one a proper prefix of the other, and a
\* delete has been applied as well.
C2_Witness ==
    \E t, u \in Tasks :
        /\ Done(t, "get_all_chunks") /\ ret[t].tag = "Ok"
        /\ Done(u, "get_all_chunks") /\ ret[u].tag = "Ok"
        /\ Len(ret[u].val) < Len(ret[t].val)
        /\ Len(ret[u].val) > 0
        /\ IsPrefix(ret[u].val, ret[t].val)
        /\ deleted_rows # {}

\* ----------------------------------------------------------------- C3
\* C3 (write exclusivity, no lost update): when two tasks' append calls have
\* both returned Ok, the chunk sequence holds the chunk of each at a place
\* of its own.
C3_NoLostAppend ==
    \A t, u \in Tasks :
        (t # u /\ Done(t, "append") /\ ret[t].tag = "Ok"
               /\ Done(u, "append") /\ ret[u].tag = "Ok")
            => \E i, j \in DOMAIN chunks :
                   i # j /\ chunks[i] = call[t].arg /\ chunks[j] = call[u].arg

\* Two sessions obtained from write() appended, one call invoked while the
\* other was still running, and both have returned.
C3_Witness ==
    \E t, u \in Tasks :
        /\ t # u
        /\ session[t] = "write" /\ session[u] = "write"
        /\ Done(t, "append") /\ ret[t].tag = "Ok"
        /\ Done(u, "append") /\ ret[u].tag = "Ok"
        /\ overlap[u]
        /\ chunks = <<call[t].arg, call[u].arg>>

\* ----------------------------------------------------------------- C4
\* C4 (lock mutual exclusion): at most one task is inside a mutating call
\* (holds the write guard), and while one is, no other task is inside any
\* call on the table: no reader runs in the middle of a mutating call.
C4_MutualExclusion ==
    LET inside  == {t \in Tasks : pc[t] = "locked"}
        writing == {t \in inside : call[t].op \in Mutating}
    IN  /\ Cardinality(writing) <= 1
        /\ writing # {} => inside = writing
        /\ writing = (IF writer = None THEN {} ELSE {writer})
        /\ readers = inside \ writing

\* A mutating call holds the write guard while another task's enumerating
\* call waits for its read guard.
C4_Witness ==
    \E t, u \in Tasks :
        /\ writer = t /\ pc[t] = "locked"
        /\ pc[u] = "wait" /\ call[u].op \in Reading

\* ----------------------------------------------------------------- C5
\* C5 (delete idempotence): a delete(r) that runs returns Ok and leaves the
\* tombstone set equal to the old set with r in it; on a set that already
\* holds r, as after a first delete(r), it leaves the set as it was.
C5_DeleteIdempotent ==
    [][\A t \in Tasks :
          Returns(t, "delete") =>
              /\ ret'[t] = Ok(Unit)
              /\ call[t].arg \in deleted_rows'
              /\ deleted_rows \subseteq deleted_rows'
              /\ deleted_rows' \ deleted_rows \subseteq {call[t].arg}
              /\ call[t].arg \in deleted_rows => deleted_rows' = deleted_rows]_vars

\* delete(r) has returned Ok twice, to two tasks, and the set is {r}.
C5_Witness ==
    \E t, u \in Tasks :
        /\ t # u
        /\ Done(t, "delete") /\ ret[t] = Ok(Unit)
        /\ Done(u, "delete") /\ ret[u] = Ok(Unit)
        /\ call[t].arg = call[u].arg
        /\ deleted_rows = {call[t].arg}

\* ----------------------------------------------------------------- C6
\* C6 (unknown column rejection): a column_descs(ids) with at least one id
\* absent from the column map returns Err(InvalidColumn(id)) for an id of
\* the request that is absent, so no descriptor at all, and the step leaves
\* chunks, tombstones and column map as they were.
C6_UnknownColumnRejected ==
    [][\A t \in Tasks :
          (Returns(t, "column_descs") /\ Absent(call[t].arg) # {}) =>
              /\ ret'[t].tag = "Err"
              /\ \E i \in Absent(call[t].arg) :
                     ret'[t].val = InvalidColumn(call[t].arg[i])
              /\ UNCHANGED <<chunks, deleted_rows, columns>>]_vars

\* column_descs([valid_id, invalid_id]) has failed on a table with data.
C6_Witness ==
    \E t \in Tasks :
        /\ Done(t, "column_descs")
        /\ Len(call[t].arg) = 2
        /\ call[t].arg[1] \in DOMAIN columns
        /\ call[t].arg[2] \notin DOMAIN columns
        /\ ret[t] = Err(InvalidColumn(call[t].arg[2]))
        /\ chunks # <<>>

\* ----------------------------------------------------------------- C7
\* C7 (invalid transaction mode): a mutating call made through a session
\* obtained from read() returns an error and changes neither the chunk
\* sequence nor the tombstone set.
C7_ReadSessionRejectsMutation ==
    [][\A t \in Tasks :
          (session[t] = "read" /\ call[t].op \in Mutating
              /\ pc[t] \in {"wait", "locked"} /\ pc'[t] = "idle") =>
              /\ ret'[t].tag = "Err"
              /\ UNCHANGED <<chunks, deleted_rows>>]_vars

\* ----------------------------------------------------------------- C8
\* C8 (tombstone validity): every row identifier in the tombstone set is the
\* position of a row that has been appended.
C8_TombstonesAppended ==
    \A r \in deleted_rows : r < RowCount(chunks)

\* ----------------------------------------------------------------- C9
\* C9 (lock acquisition failure): a call that finds the lock poisoned
\* returns a storage error; Table::column_descs in particular never
\* unwinds.  Only the holder whose failure poisoned the lock has unwound.
C9_PoisonedLockIsAnError ==
    \A t \in Tasks :
        pc[t] = "panicked" => call[t].op \in Mutating

\* ---------------------------------------------------------------- C10
\* C10 (column_descs result order): a column_descs(ids) whose ids are all
\* in the column map returns Ok of a sequence as long as ids whose i-th
\* element is the descriptor the catalog gave for ids[i], wherever that
\* column stood in the catalog.
C10_RequestOrder ==
    \A t \in Tasks :
        (Done(t, "column_descs") /\ Absent(call[t].arg) = {}) =>
            /\ ret[t].tag = "Ok"
            /\ Len(ret[t].val) = Len(call[t].arg)
            /\ \A i \in 1..Len(call[t].arg) :
                   \E k \in 1..Len(catalog) :
                       /\ catalog[k].id = call[t].arg[i]
                       /\ catalog[k].desc = ret[t].val[i]

\* Two columns with different descriptors, requested in the order opposite
\* to the catalog's.
C10_Witness ==
    \E t \in Tasks :
        /\ Done(t, "column_descs")
        /\ Len(catalog) = 2
        /\ catalog[1].desc # catalog[2].desc
        /\ call[t].arg = <<catalog[2].id, catalog[1].id>>
        /\ ret[t] = Ok(<<catalog[2].desc, catalog[1].desc>>)

\* ---------------------------------------------------------------- C11
\* C11 (concurrent readers do not block each other): while no task holds
\* the write guard or waits for it, every task that waits in
\* get_all_chunks, get_all_deleted_rows or column_descs can take its guard
\* at once, whichever other tasks hold read guards.
C11_ReadersDoNotBlock ==
    \A t \in Tasks :
        (/\ pc[t] = "wait"
         /\ call[t].op \in Reading
         /\ writer = None
         /\ \A u \in Tasks : ~(pc[u] = "wait" /\ call[u].op \in Mutating))
            => ENABLED (AcquireRead(t) \/ SessionLockError(t) \/ ColumnDescsPoisoned(t))

\* Every task is inside an enumerating call at the same time, one of them
\* in get_all_chunks and one in column_descs.
C11_Witness ==
    /\ readers = Tasks
    /\ \A t \in Tasks : pc[t] = "locked"
    /\ \E t, u \in Tasks : call[t].op = "get_all_chunks" /\ call[u].op = "column_descs"

\* ---------------------------------------------------------------- C12
\* C12 (handle aliasing): the handles the tasks hold, clones included, all
\* point to the one inner table and report the same table_id; a
\* get_all_chunks through any of them returns the chunk of every append
\* that has returned through any other, and a get_all_deleted_rows the row
\* of every delete that has returned.
C12_HandleAliasing ==
    [][/\ \A t, u \in Tasks :
            /\ handle'[t].inner = handle'[u].inner
            /\ table_id(handle'[t]) = table_id(handle'[u])
       /\ \A t \in Tasks : txn'[t] # NoTxn => txn'[t].table = TheArc
       /\ \A t \in Tasks :
            Returns(t, "get_all_chunks") =>
                \A u \in Tasks :
                    (Done(u, "append") /\ ret[u].tag = "Ok") =>
                        \E i \in DOMAIN ret'[t].val : ret'[t].val[i] = call[u].arg
       /\ \A t \in Tasks :
            Returns(t, "get_all_deleted_rows") =>
                \A u \in Tasks :
                    (Done(u, "delete") /\ ret[u].tag = "Ok") =>
                        call[u].arg \in ret'[t].val]_vars

\* Two tasks hold clones; the chunk one appended through its clone has been
\* returned to the other through its own.
C12_Witness ==
    \E t, u \in Tasks :
        /\ t # u
        /\ origin[t] = "clone" /\ origin[u] = "clone"
        /\ Done(u, "append") /\ ret[u].tag = "Ok"
        /\ Done(t, "get_all_chunks") /\ ret[t].tag = "Ok"
        /\ ret[t].val = <<call[u].arg>>
        /\ table_id(handle[t]) = table_id(handle[u])

\* ---------------------------------------------------------------- C13
\* C13 (delete is bookkeeping only): a delete changes the tombstone set and
\* leaves the chunk sequence as it was; an append extends the chunk sequence
\* and leaves the tombstone set as it was; get_all_chunks returns the whole
\* chunk sequence, one chunk per append, whatever the tombstones are.
C13_DeleteIsBookkeeping ==
    [][\A t \in Tasks :
          /\ Returns(t, "delete") =>
                 /\ chunks' = chunks
                 /\ call[t].arg \in deleted_rows'
          /\ Returns(t, "append") =>
                 /\ deleted_rows' = deleted_rows
                 /\ Len(chunks') = Len(chunks) + 1
          /\ Returns(t, "get_all_chunks") =>
                 /\ ret'[t] = Ok(chunks)
                 /\ Len(ret'[t].val) = Len(appendLog)]_vars

\* After append A, append B and delete 1, the chunks returned are [A, B]
\* and the deleted rows returned are {1}.
C13_Witness ==
    \E t, u \in Tasks :
        /\ appendLog = <<"A", "B">>
        /\ deleted_rows = {1}
        /\ Done(t, "get_all_chunks") /\ ret[t] = Ok(<<"A", "B">>)
        /\ Done(u, "get_all_deleted_rows") /\ ret[u] = Ok({1})

\* ---------------------------------------------------------------- C14
\* C14 (column map immutability): new builds the column map from the
\* catalog entries, one descriptor per column id, with no chunk and no
\* tombstone; after that no step of any call changes the map.
C14_ColumnMapImmutable ==
    /\ chunks = <<>>
    /\ deleted_rows = {}
    /\ DOMAIN columns = {catalog[k].id : k \in 1..Len(catalog)}
    /\ \A k \in 1..Len(catalog) : columns[catalog[k].id] = catalog[k].desc
    /\ [][columns' = columns]_vars

\* Appends, a delete, an enumeration and a column_descs have all run on the
\* table and the map still is the catalog's.
C14_Witness ==
    \E t, u \in Tasks :
        /\ Len(chunks) = 2
        /\ deleted_rows # {}
        /\ Done(t, "column_descs")
        /\ Done(u, "get_all_chunks")
        /\ columns = collect(catalog)

\* ---------------------------------------------------------------- C15
\* C15 (snapshot independence): what get_all_chunks returns reads as the
\* chunk sequence of the moment of the call, what get_all_deleted_rows
\* returns as the tombstone set of that moment, and as long as the reader
\* keeps the value, no later append or delete changes what it reads in it.
C15_SnapshotIndependence ==
    [][\A t \in Tasks :
          /\ Returns(t, "get_all_chunks") => seen_chunks(ret[t].val)' = chunks
          /\ Returns(t, "get_all_deleted_rows") => seen_rows(ret[t].val)' = deleted_rows
          /\ (Done(t, "get_all_chunks") /\ ret[t].tag = "Ok" /\ pc'[t] = "idle")
                => seen_chunks(ret[t].val)' = seen_chunks(ret[t].val)
          /\ (Done(t, "get_all_deleted_rows") /\ ret[t].tag = "Ok" /\ pc'[t] = "idle")
                => seen_rows(ret[t].val)' = seen_rows(ret[t].val)]_vars

\* A reader still reads [A] in its snapshot after another task appended B
\* and then deleted a row.
C15_Witness ==
    \E t, u \in Tasks :
        /\ Done(t, "get_all_chunks") /\ ret[t].tag = "Ok"
        /\ seen_chunks(ret[t].val) = <<"A">>
        /\ chunks = <<"A", "B">>
        /\ Done(u, "delete") /\ ret[u].tag = "Ok"
        /\ deleted_rows # {}

\* ---------------------------------------------------------------- C16
EntryPoints == {"write", "read", "update"}

\* C16 (uniform transaction modes): the sessions that write(), read() and
\* update() produce on one table are equal, and whatever the entry point a
\* session came from, the result and the effect of each of its calls are
\* those of the call on the table alone.
C16_UniformModes ==
    [][\A t \in Tasks :
          /\ \A u \in Tasks :
                (session'[t] # None /\ session'[u] # None
                    /\ handle[t].inner = handle[u].inner) => txn'[t] = txn'[u]
          /\ \A e \in EntryPoints : session[t] = e =>
                /\ Returns(t, "append") =>
                      /\ ret'[t] = Ok(Unit)
                      /\ chunks' = Append(chunks, call[t].arg)
                      /\ deleted_rows' = deleted_rows
                /\ Returns(t, "delete") =>
                      /\ ret'[t] = Ok(Unit)
                      /\ deleted_rows' = deleted_rows \cup {call[t].arg}
                      /\ chunks' = chunks
                /\ Returns(t, "get_all_chunks") =>
                      /\ ret'[t] = Ok(chunks)
                      /\ UNCHANGED <<chunks, deleted_rows>>
                /\ Returns(t, "get_all_deleted_rows") =>
                      /\ ret'[t] = Ok(deleted_rows)
                      /\ UNCHANGED <<chunks, deleted_rows>>]_vars

\* A session from read() and a session from update() have each appended a
\* chunk with success, and both chunks are in the table.
C16_Witness ==
    \E t, u \in Tasks :
        /\ session[t] = "read" /\ session[u] = "update"
        /\ txn[t] = txn[u]
        /\ Done(t, "append") /\ ret[t] = Ok(Unit)
        /\ Done(u, "append") /\ ret[u] = Ok(Unit)
        /\ Len(chunks) = 2

\* ---------------------------------------------------------------- C17
\* C17 (per-call lock granularity): a session between two of its calls
\* holds no guard, so a mutating call of another session that waits for the
\* lock can take it as soon as no call is running, whatever sessions are
\* live: the mutations of two sessions interleave call by call.
C17_PerCallLocking ==
    \A t \in Tasks :
        /\ pc[t] = "idle" => (writer # t /\ t \notin readers)
        /\ (/\ pc[t] = "wait"
            /\ call[t].op \in Mutating
            /\ ~poisoned
            /\ \A u \in Tasks \ {t} : pc[u] # "locked") => ENABLED AcquireWrite(t)

\* Session t has appended A and is still live, between two calls; the other
\* session holds the write guard for a delete that is about to take effect.
C17_Witness ==
    \E t, u \in Tasks :
        /\ session[t] # None /\ pc[t] = "idle"
        /\ Done(t, "append") /\ ret[t] = Ok(Unit)
        /\ chunks = <<"A">>
        /\ session[u] # None /\ pc[u] = "locked"
        /\ writer = u /\ call[u].op = "delete"
        /\ deleted_rows = {}

\* ---------------------------------------------------------------- C18
\* C18 (no rollback on session end): the step that ends a session leaves
\* the chunk sequence and the tombstone set as they were just before it.
C18_NoRollbackOnDrop ==
    [][\A t \in Tasks :
          (session[t] # None /\ session'[t] = None) =>
              UNCHANGED <<chunks, deleted_rows>>]_vars

\* A session that appended with success has ended; a session that is live
\* has enumerated the table since and got the chunks and the tombstones.
C18_Witness ==
    \E t, u \in Tasks :
        /\ session[t] = None
        /\ Done(t, "append") /\ ret[t] = Ok(Unit)
        /\ session[u] # None
        /\ Done(u, "get_all_chunks")
        /\ chunks # <<>> /\ deleted_rows # {}
        /\ ret[u] = Ok(chunks)

\* ================================================================ binder
\* src/binder/expression/mod.rs: bind_expr on a literal, and the conversion
\* of a parsed Value into a DataValue.

\* ------------------------------------------------------------- literals
\* The text of a Value::Number is a String: any characters.
LitChars == {"1", "+", "-", ".", "e", "x"}
\* Literals around the ends of the i32 range, and one with leading zeros.
LongLiterals ==
    { <<"2", "1", "4", "7", "4", "8", "3", "6", "4", "7">>,
      <<"2", "1", "4", "7", "4", "8", "3", "6", "4", "8">>,
      <<"-", "2", "1", "4", "7", "4", "8", "3", "6", "4", "8">>,
      <<"-", "2", "1", "4", "7", "4", "8", "3", "6", "4", "9">>,
      <<"0", "0", "5">> }
Literals == SeqUpTo(LitChars, MaxLitLen) \cup LongLiterals

Number(n)             == [kind |-> "Number", val |-> n]
SingleQuotedString(x) == [kind |-> "SingleQuotedString", val |-> x]
DoubleQuotedString(x) == [kind |-> "DoubleQuotedString", val |-> x]
Boolean(b)            == [kind |-> "Boolean", val |-> b]
Null                  == [kind |-> "Null", val |-> None]
Strings == {<<"x">>, <<"1">>}

Expr_Value(v) == [kind |-> "Value", val |-> v]

\* ------------------------------------------------------------ str::parse
i32_MAX == 2147483647
i32_MIN == -i32_MAX - 1

DigitChars == <<"0", "1", "2", "3", "4", "5", "6", "7", "8", "9">>
is_digit(c) == \E i \in DOMAIN DigitChars : DigitChars[i] = c
to_digit(c) == (CHOOSE i \in DOMAIN DigitChars : DigitChars[i] = c) - 1
all_digits(x) == \A i \in DOMAIN x : is_digit(x[i])

is_sign(c) == c \in {"+", "-"}
strip_sign(x) == IF x # <<>> /\ is_sign(x[1]) THEN Tail(x) ELSE x
is_negative(x) == x # <<>> /\ x[1] = "-"

\* The digit loop of i32::from_str_radix: checked_mul by the radix, then
\* checked_add of the digit, or checked_sub for a negative number.
RECURSIVE from_digits(_, _, _)
from_digits(x, acc, neg) ==
    IF x = <<>> THEN Ok(acc)
    ELSE IF ~is_digit(x[1]) THEN Err("InvalidDigit")
    ELSE IF acc > i32_MAX \div 10 THEN Err("PosOverflow")
    ELSE IF acc < -(i32_MAX \div 10) THEN Err("NegOverflow")
    ELSE LET m == acc * 10
             d == to_digit(x[1])
         IN  IF neg THEN IF m < i32_MIN + d THEN Err("NegOverflow")
                         ELSE from_digits(Tail(x), m - d, neg)
             ELSE IF m > i32_MAX - d THEN Err("PosOverflow")
                  ELSE from_digits(Tail(x), m + d, neg)

\* n.parse::<i32>()
parse_i32(n) ==
    IF n = <<>> THEN Err("Empty")
    ELSE IF strip_sign(n) = <<>> THEN Err("InvalidDigit")
    ELSE from_digits(strip_sign(n), 0, is_negative(n))

\* Index of the first character of x that is in cs; 0 if there is none.
find(x, cs) ==
    IF \E i \in DOMAIN x : x[i] \in cs
    THEN CHOOSE i \in DOMAIN x : x[i] \in cs /\ \A j \in 1..(i - 1) : x[j] \notin cs
    ELSE 0

\* n.parse::<f64>(), decimal form: Sign? (Digit* '.'? Digit*) with at
\* least one digit, then an optional 'e' Sign? Digit+. The value is kept
\* as the decimal the text denotes: sign, integral digits, fractional
\* digits and the text of the exponent.
parse_f64(n) ==
    LET body == strip_sign(n)
        e    == find(body, {"e", "E"})
        mant == IF e = 0 THEN body ELSE SubSeq(body, 1, e - 1)
        exp  == IF e = 0 THEN <<>> ELSE SubSeq(body, e + 1, Len(body))
        dot  == find(mant, {"."})
        int  == IF dot = 0 THEN mant ELSE SubSeq(mant, 1, dot - 1)
        frac == IF dot = 0 THEN <<>> ELSE SubSeq(mant, dot + 1, Len(mant))
    IN  IF n = <<>> THEN Err("Empty")
        ELSE IF ~(all_digits(int) /\ all_digits(frac)) THEN Err("Invalid")
        ELSE IF int = <<>> /\ frac = <<>> THEN Err("Invalid")
        ELSE IF e # 0 /\ ~(strip_sign(exp) # <<>> /\ all_digits(strip_sign(exp)))
             THEN Err("Invalid")
        ELSE Ok([neg |-> is_negative(n), int |-> int, frac |-> frac,
                 exp |-> exp])

\* ------------------------------------------------------------- DataValue
Int32(v)      == [tag |-> "Int32", val |-> v]
Float64(v)    == [tag |-> "Float64", val |-> v]
DataString(x) == [tag |-> "String", val |-> x]
Bool(b)       == [tag |-> "Bool", val |-> b]
DataNull      == [tag |-> "Null", val |-> None]

\* impl From<&Value> for DataValue; panic! gives Panicked.
from(v) ==
    IF v.kind = "Number" THEN
        IF parse_i32(v.val).tag = "Ok" THEN Int32(parse_i32(v.val).val)
        ELSE IF parse_f64(v.val).tag = "Ok" THEN Float64(parse_f64(v.val).val)
        ELSE Panicked
    ELSE IF v.kind = "SingleQuotedString" THEN DataString(v.val)
    ELSE IF v.kind = "DoubleQuotedString" THEN DataString(v.val)
    ELSE IF v.kind = "Boolean" THEN Bool(v.val)
    ELSE DataNull

\* DataValue::data_type: None for NULL.
data_type(value) == IF value.tag = "Null" THEN None ELSE value.tag

\* BoundExpr::constant(value)
constant(value) ==
    [kind |-> [tag |-> "Constant", val |-> value], return_type |-> data_type(value)]

\* Binder::bind_expr on Expr::Value(v): the conversion runs inside the
\* call, so its panic unwinds through bind_expr.
bind_expr(e) ==
    LET value == from(e.val)
    IN  IF value.tag = "Panicked" THEN Panicked ELSE Ok(constant(value))

\* --------------------------------------------------------------- actions
\* The caller has an Expr::Value to bind.
GivenExpr(v) ==
    /\ expr.kind = None
    /\ expr' = Expr_Value(v)
    /\ UNCHANGED <<table, lock, session, pc, call, ret, overlap, appendLog,
                   handle, origin, txn, bound>>

BindExpr ==
    /\ expr.kind = "Value"
    /\ bound.tag = "Pending"
    /\ bound' = bind_expr(expr)
    /\ UNCHANGED <<table, lock, session, pc, call, ret, overlap, appendLog,
                   handle, origin, txn, expr>>

NextBind ==
    \/ \E n \in Literals : GivenExpr(Number(n))
    \/ \E x \in Strings : GivenExpr(SingleQuotedString(x))
    \/ \E x \in Strings : GivenExpr(DoubleQuotedString(x))
    \/ \E b \in BOOLEAN : GivenExpr(Boolean(b))
    \/ GivenExpr(Null)
    \/ BindExpr

SpecBind == Init /\ [][NextBind]_vars

\* ---------------------------------------------------------------- C19
\* C19 (numeric literal coercion): binding a numeric literal returns an
\* Int32 constant when the text parses as an i32, else a Float64 constant
\* when it parses as an f64, else a bind failure as an Err result of
\* bind_expr; bind_expr always returns.
C19_NumericLiteralCoercion ==
    (expr.kind = "Value" /\ expr.val.kind = "Number" /\ bound.tag # "Pending") =>
        LET n == expr.val.val
        IN  IF parse_i32(n).tag = "Ok"
            THEN bound = Ok(constant(Int32(parse_i32(n).val)))
            ELSE IF parse_f64(n).tag = "Ok"
            THEN bound = Ok(constant(Float64(parse_f64(n).val)))
            ELSE bound.tag = "Err"

====
